---- MODULE Spec2Model ----
(***************************************************************************)
(* A model of the MIDI reader of rtmidi-direct (src/midi-reader/           *)
(* midi_reader.c, src/midi_reader.h): the byte state machine               *)
(* (midi_reader_push_byte), frame finalisation (midi_frame_process), the   *)
(* multiplexer (midi_reader_update), the frame queue, injection and        *)
(* running-status expansion.                                               *)
(*                                                                         *)
(* Bytes are integers 0..255.  b & 0x80 # 0 is written b >= 128, and       *)
(* (b & 0xF0) | n is written (b \div 16) * 16 + n.                         *)
(***************************************************************************)
EXTENDS Integers, Sequences, FiniteSets, TLC

(***************************************************************************)
(* Program constants.                                                      *)
(***************************************************************************)
MIDIF_IOERROR == -3
MIDIF_NODATA == -2
MIDIF_ERROR == -1
MIDIF_NEXT == 0
MIDIF_COMPLETE == 1
MIDIF_SKIPPED == 2

MIDI_FRAME_MAX == 128
MIDI_READER_FRAMES_MAX == 1024
MIDI_READER_BUF_MAX == 256
MIDI_READER_IN_MAX == 64

(***************************************************************************)
(* Bounds of the model.                                                    *)
(***************************************************************************)
\* bytes that may arrive at the device in the whole run (Spec)
MaxBytes == 4

VARIABLES
    flags,      \* reader->flags, the set of flag names that are set
    to_skip,    \* reader->to_skip, the status bytes before the terminating 0
    sources,    \* reader->sources, slot i of the array at index i + 1
    nsources,   \* reader->nsources
    dumpfd,     \* reader->dumpfd
    frames,     \* reader->frames: len, offset and the slots written so far
    callback,   \* reader->callback: "none" (NULL) or the behaviour registered
    total,      \* reader->total
    start,      \* the static 'start' of midi_reader_update
    tape,       \* per file descriptor, the bytes waiting at the device
    dump,       \* the writes made to the dump sink, oldest first
    env,        \* the environment: the bytes that may still arrive, the
                \* injections that may still be made, the stream it plays
    last,       \* the last operation: its name, result and per-byte events
    hist        \* history: the frames stored in the queue, the frames
                \* midi_reader_get_next returned and the descriptors passed
                \* to close (), oldest first

vars == <<flags, to_skip, sources, nsources, dumpfd, frames, callback, total,
          start, tape, dump, env, last, hist>>

(***************************************************************************)
(* Data types (src/midi_reader.h).                                         *)
(***************************************************************************)
\* midi_frame_reset: len = 0 and data[0] = 0.  Bytes of data[] at or beyond
\* len are never read by the reader, and are dropped here; data[0] of an
\* empty data sequence is 0.
midi_frame_reset ==
    [len |-> 0, data |-> <<>>]

\* mf->data[0]
D0(mf) ==
    IF Len(mf.data) > 0 THEN mf.data[1] ELSE 0

\* memset (&stats, 0, ...)
ZeroStats ==
    [read |-> 0, errors |-> 0, skipped |-> 0, missed |-> 0]

\* midi_reader_reset_source (src, to_close): the memset clears every field,
\* the descriptor included, before it is used by close().
midi_reader_reset_source(to_close) ==
    [fd |-> IF to_close THEN -1 ELSE 0,
     running |-> 0,
     buf |-> <<>>,
     buf_offset |-> 0,
     push_back |-> -1,
     current |-> midi_frame_reset,
     channel |-> -1,
     stats |-> ZeroStats]

\* reader->sources[i]; slots never written hold what midi_reader_init left
SrcAt(srcs, i) ==
    IF i + 1 <= Len(srcs) THEN srcs[i + 1] ELSE midi_reader_reset_source(FALSE)

\* reader->sources[i] = s
SetSrc(srcs, i, s) ==
    IF i + 1 <= Len(srcs)
    THEN [srcs EXCEPT ![i + 1] = s]
    ELSE [k \in 1..(i + 1) |-> IF k = i + 1 THEN s ELSE SrcAt(srcs, k - 1)]

\* the table midi_frame_len, indexed by status byte - 0x80
midi_frame_len ==
    [i \in 0..127 |->
        IF i < 64 THEN 3
        ELSE IF i < 96 THEN 2
        ELSE IF i < 112 THEN 3
        ELSE IF i = 112 THEN -240
        ELSE IF i = 113 THEN 2
        ELSE IF i = 114 THEN 3
        ELSE IF i = 115 THEN 2
        ELSE 1]

\* C's a % b for b > 0: the sign follows the dividend
CRem(a, b) ==
    IF a >= 0 THEN a % b ELSE 0 - ((0 - a) % b)

(***************************************************************************)
(* Running-status expansion (midi_frame_expand_running).                   *)
(***************************************************************************)
\* an expansion loop that copies the frame back as it was
ExpandLoopCopy(f, i, mf) ==
    f

RECURSIVE ExpandLoop(_, _, _)
\* the for loop: i = 1, 3, 5, ... while i < f.len (C indices)
ExpandLoop(f, i, mf) ==
    IF i < f.len
    THEN ExpandLoop(f, i + 2,
            [len |-> mf.len + 3,
             data |-> mf.data \o <<f.data[1], f.data[i + 1], f.data[i + 2]>>])
    ELSE mf

\* the first test: nothing to expand
ExpandNothing(mf) ==
    D0(mf) < 128 \/ D0(mf) > 239 \/ mf.len = 3

midi_frame_expand_running(mf) ==
    IF ExpandNothing(mf)
    THEN [ok |-> TRUE, mf |-> mf]
    ELSE IF CRem(mf.len - 1, 2) # 0
    THEN [ok |-> FALSE, mf |-> mf]
    ELSE IF mf.len + ((mf.len - 1) \div 2) > MIDI_FRAME_MAX
    THEN [ok |-> FALSE, mf |-> mf]
    ELSE [ok |-> TRUE, mf |-> ExpandLoop(mf, 1, midi_frame_reset)]

(***************************************************************************)
(* Frame finalisation (midi_frame_process).                                *)
(***************************************************************************)
\* the loop over reader->to_skip
IsSkipped(skip, mf) ==
    \E k \in 1..Len(skip) : D0(mf) = skip[k]

\* channel translation that stores the channel number, not channel - 1
ChannelTranslateOffByOne(mf, channel) ==
    IF channel > 0 /\ D0(mf) >= 128 /\ D0(mf) <= 239
    THEN [mf EXCEPT !.data[1] = ((D0(mf) \div 16) * 16 + channel) % 256]
    ELSE mf

\* channel translation
ChannelTranslate(mf, channel) ==
    IF channel > 0 /\ D0(mf) >= 128 /\ D0(mf) <= 239
    THEN [mf EXCEPT !.data[1] = (D0(mf) \div 16) * 16 + (channel - 1)]
    ELSE mf

\* the user callback: the registered function returns a fixed outcome, and
\* "empty" sets mf->len to 0
\* a callback's edit of the frame it is handed: it counts in the last byte
CallbackEdit(mf) ==
    IF mf.len = 0 THEN mf
    ELSE [mf EXCEPT !.data[mf.len] = (@ + 1) % 256]

Callback(kind, mf) ==
    CASE kind = "complete" -> [st |-> MIDIF_COMPLETE, mf |-> mf]
      [] kind = "edit" -> [st |-> MIDIF_COMPLETE, mf |-> CallbackEdit(mf)]
      [] kind = "skipped" -> [st |-> MIDIF_SKIPPED, mf |-> mf]
      [] kind = "error" -> [st |-> MIDIF_ERROR, mf |-> mf]
      [] kind = "next" -> [st |-> MIDIF_NEXT, mf |-> mf]
      [] kind = "empty" -> [st |-> MIDIF_COMPLETE, mf |-> midi_frame_reset]
      [] OTHER -> [st |-> MIDIF_COMPLETE, mf |-> mf]

\* the character code of one lower-case hexadecimal digit ("%x")
HexDigit(n) ==
    IF n < 10 THEN 48 + n ELSE 87 + n

RECURSIVE midi_frame_dump(_, _)
\* dprintf (fd, "%.2x ", mf->data[j]) for j = 0 .. len - 1
midi_frame_dump(mf, j) ==
    IF j < mf.len
    THEN <<HexDigit(mf.data[j + 1] \div 16), HexDigit(mf.data[j + 1] % 16), 32>>
            \o midi_frame_dump(mf, j + 1)
    ELSE <<>>

\* the dump step: one write to the sink per frame
DumpFrame(dmp, mf) ==
    IF dumpfd > -1
    THEN Append(dmp, [fd |-> dumpfd,
                      bytes |-> IF "DUMPHEX" \in flags
                                THEN midi_frame_dump(mf, 0)
                                ELSE SubSeq(mf.data, 1, mf.len)])
    ELSE dmp

\* room for one entry more than the queue holds
QueueHasRoomOneMore(len) ==
    len <= MIDI_READER_FRAMES_MAX

\* room left in the queue
QueueHasRoom(len) ==
    len < MIDI_READER_FRAMES_MAX

\* the store step: compaction of a drained queue, then memcpy or missed++
Store(fr, mf) ==
    LET f1 == IF fr.len = fr.offset
              THEN [fr EXCEPT !.len = 0, !.offset = 0]
              ELSE fr
    IN  IF QueueHasRoom(f1.len)
        THEN [frames |-> [len |-> f1.len + 1,
                          offset |-> f1.offset,
                          frames |-> IF f1.len < Len(f1.frames)
                                     THEN [f1.frames EXCEPT ![f1.len + 1] = mf]
                                     ELSE Append(f1.frames, mf)],
              stored |-> TRUE]
        ELSE [frames |-> f1, stored |-> FALSE]

\* the result of midi_frame_process: the outcome, rd, the frame, the
\* source's statistics, and whether the frame was stored and dumped
Processed(st, rd, mf, stats, stored, dumped) ==
    [st |-> st, rd |-> rd, mf |-> mf, stats |-> stats,
     stored |-> stored, dumped |-> dumped]

\* a skipped frame counted for its source only
SkippedSourceOnly(rd1, mf, st1) ==
    Processed(MIDIF_SKIPPED, rd1, mf, [st1 EXCEPT !.skipped = @ + 1],
              FALSE, FALSE)

\* a frame counted as skipped (by the skip-list or by the callback)
Skipped(rd1, mf, st1) ==
    Processed(MIDIF_SKIPPED, [rd1 EXCEPT !.total.skipped = @ + 1], mf,
              [st1 EXCEPT !.skipped = @ + 1], FALSE, FALSE)

\* running-status expansion when MIDI_READER_EXPAND is set; its result is
\* not looked at
Expanded(mf1) ==
    IF "EXPAND" \in flags THEN midi_frame_expand_running(mf1).mf ELSE mf1

\* a callback step that never calls the callback
CallbackNeverCalled(mf2) ==
    [st |-> MIDIF_COMPLETE, mf |-> mf2]

\* the callback step: the outcome and the frame the callback leaves
CallbackStep(mf2) ==
    IF callback # "none"
    THEN Callback(callback, mf2)
    ELSE [st |-> MIDIF_COMPLETE, mf |-> mf2]

\* dump and store steps that do not count the frames they drop
DeliveredUncounted(rd1, mf3, st1, s) ==
    Processed(MIDIF_COMPLETE,
              [total |-> rd1.total, frames |-> s.frames,
               dump |-> DumpFrame(rd1.dump, mf3)],
              mf3, st1, s.stored, dumpfd > -1)

\* the dump and store steps; s is the result of Store
Delivered(rd1, mf3, st1, s) ==
    Processed(MIDIF_COMPLETE,
              [total |-> IF s.stored
                         THEN rd1.total
                         ELSE [rd1.total EXCEPT !.missed = @ + 1],
               frames |-> s.frames,
               dump |-> DumpFrame(rd1.dump, mf3)],
              mf3, st1, s.stored, dumpfd > -1)

\* what follows the callback step, whose result is cb
AfterCallback(rd1, st1, cb) ==
    IF callback # "none" /\ cb.mf.len = 0
    THEN Processed(MIDIF_NODATA, rd1, cb.mf, st1, FALSE, FALSE)
    ELSE IF callback # "none" /\ cb.st = MIDIF_SKIPPED
    THEN Skipped(rd1, cb.mf, st1)
    ELSE IF callback # "none" /\ cb.st # MIDIF_COMPLETE
    THEN Processed(cb.st, [rd1 EXCEPT !.total.errors = @ + 1], cb.mf,
                   [st1 EXCEPT !.errors = @ + 1], FALSE, FALSE)
    ELSE Delivered(rd1, cb.mf, st1, Store(rd1.frames, cb.mf))

\* midi_frame_process once the frame is counted as read
Counted(rd1, mf, channel, st1) ==
    IF IsSkipped(to_skip, mf)
    THEN Skipped(rd1, mf, st1)
    ELSE AfterCallback(rd1, st1,
            CallbackStep(Expanded(ChannelTranslate(mf, channel))))

\* rd: the parts of the reader finalisation writes (total, frames, dump);
\* mf: the frame (src->current, or the injected source's); src: its source
midi_frame_process(rd, mf, src) ==
    IF mf.len = 0
    THEN Processed(MIDIF_NODATA, rd, mf, src.stats, FALSE, FALSE)
    ELSE Counted([rd EXCEPT !.total.read = @ + 1], mf, src.channel,
                 [src.stats EXCEPT !.read = @ + 1])

(***************************************************************************)
(* The byte state machine (midi_reader_push_byte).                         *)
(***************************************************************************)
\* the multiplexer always starts with the first source
NextStartFirst(st, n) ==
    0

\* no fake active sensing concludes the injected frame
NeedsFlushNever(src) ==
    FALSE

\* the opposite test of the pairing
BadPairingEven(len) ==
    len = 0 \/ CRem(len, 2) # 0

\* a frame is full one byte early
FrameFullEarly(len) ==
    len >= MIDI_FRAME_MAX - 1

\* a new status byte arrives while running status is tracked
RunningBoundary(running, b) ==
    running # 0 /\ b >= 128

\* the accumulated frame is not a status byte plus whole pairs
BadPairing(len) ==
    len = 0 \/ CRem(len - 1, 2) # 0

\* src->running for the first byte of a frame
StartRunning(b) ==
    IF b >= 128 /\ b <= 239 THEN b ELSE 0

\* the in-progress frame is already full
FrameFull(len) ==
    len = MIDI_FRAME_MAX

\* the terminator of a system exclusive frame
SysexEnd(b) ==
    b = 247

\* a fixed-length frame is complete by its length alone
FixedCompleteByLength(running, len, mflen) ==
    len = mflen

\* a fixed-length frame is complete
FixedComplete(running, len, mflen) ==
    running = 0 /\ len = mflen

\* the result of a push that does not reach midi_frame_process
NoProcess(st, rd, src) ==
    [st |-> st, rd |-> rd, src |-> src, proc |-> FALSE,
     fin |-> midi_frame_reset, out |-> midi_frame_reset,
     stored |-> FALSE, dumped |-> FALSE]

\* an error outcome: both errors counters, running status dropped
PushError(st, rd, src) ==
    NoProcess(st,
              [rd EXCEPT !.total.errors = @ + 1],
              [src EXCEPT !.stats.errors = @ + 1, !.running = 0])

\* the result of a push that ends in midi_frame_process, whose result is p
Finalized(src, p) ==
    [st |-> p.st, rd |-> p.rd,
     src |-> [src EXCEPT !.current = p.mf, !.stats = p.stats],
     proc |-> TRUE, fin |-> src.current, out |-> p.mf,
     stored |-> p.stored, dumped |-> p.dumped]

\* return (midi_frame_process (reader, mf, src)) with mf = &src->current
Finalize(rd, src) ==
    Finalized(src, midi_frame_process(rd, src.current, src))

midi_reader_push_byte(rd, src, data) ==
    IF data < 0
    THEN NoProcess(MIDIF_NODATA, rd, src)
    ELSE IF data > 255
    THEN PushError(MIDIF_IOERROR, rd, src)
    ELSE IF FrameFull(src.current.len)
    THEN PushError(MIDIF_ERROR, rd, src)
    ELSE IF RunningBoundary(src.running, data)
    THEN LET s1 == [src EXCEPT !.push_back = data, !.running = 0]
         IN  IF BadPairing(src.current.len)
             THEN PushError(MIDIF_ERROR, rd, s1)
             ELSE Finalize(rd, s1)
    ELSE
    LET run == IF src.current.len = 0 THEN StartRunning(data) ELSE src.running
        mf == [len |-> src.current.len + 1,
               data |-> Append(src.current.data, data)]
        s2 == [src EXCEPT !.running = run, !.current = mf]
    IN  IF D0(mf) < 128
        THEN PushError(MIDIF_ERROR, rd, s2)
        ELSE
        LET len == midi_frame_len[D0(mf) - 128]
        IN  IF len = -240 /\ mf.len > 1
            THEN IF SysexEnd(data)
                 THEN Finalize(rd, s2)
                 ELSE NoProcess(MIDIF_NEXT, rd, s2)
            ELSE IF FixedComplete(s2.running, len, mf.len)
            THEN Finalize(rd, s2)
            ELSE NoProcess(MIDIF_NEXT, rd, s2)

\* what one call of midi_reader_push_byte did: the source slot (-1 for the
\* throwaway source of midi_reader_inject), its channel, the byte, the
\* in-progress frame and running status before the call, the outcome, and
\* for a finalised frame the frame handed to midi_frame_process (fin), the
\* frame it left (out) and whether it was stored and dumped
Event(n, src, data, p) ==
    [src |-> n, fd |-> src.fd, ch |-> src.channel, b |-> data,
     pre |-> src.current, run |-> src.running,
     st |-> p.st, proc |-> p.proc, fin |-> p.fin, out |-> p.out,
     stored |-> p.stored, dumped |-> p.dumped]

(***************************************************************************)
(* Reading the devices (midi_reader_read, midi_reader_get_byte).           *)
(***************************************************************************)
\* read (fd, buf, room): the bytes waiting at the device, at most room
DeviceRead(t, fd, room) ==
    IF fd \in DOMAIN t
    THEN IF Len(t[fd]) <= room THEN t[fd] ELSE SubSeq(t[fd], 1, room)
    ELSE <<>>

\* the body of the loop of midi_reader_read for one source; buf_len is
\* Len(s.buf)
ReadSource(s, t) ==
    IF s.push_back > -1
    THEN s
    ELSE LET s1 == IF s.buf_offset >= Len(s.buf)
                   THEN [s EXCEPT !.buf = <<>>, !.buf_offset = 0]
                   ELSE s
         IN  IF Len(s1.buf) >= MIDI_READER_BUF_MAX
             THEN s1
             ELSE [s1 EXCEPT !.buf = @ \o
                     DeviceRead(t, s.fd, MIDI_READER_BUF_MAX - Len(s1.buf))]

\* the registered sources after midi_reader_read (descriptors of registered
\* sources are distinct, so the reads do not interfere)
midi_reader_read(srcs, t) ==
    [k \in 1..Len(srcs) |->
        IF k <= nsources THEN ReadSource(srcs[k], t) ELSE srcs[k]]

\* the number of bytes read () returned for one source
Taken(s, t) ==
    Len(ReadSource(s, t).buf)
        - (IF s.push_back <= -1 /\ s.buf_offset >= Len(s.buf)
           THEN 0 ELSE Len(s.buf))

\* the devices after midi_reader_read
TapeAfterRead(srcs, t) ==
    [fd \in DOMAIN t |->
        LET ks == {k \in 1..Len(srcs) : k <= nsources /\ srcs[k].fd = fd}
        IN  IF ks = {}
            THEN t[fd]
            ELSE SubSeq(t[fd], Taken(srcs[CHOOSE k \in ks : TRUE], t) + 1,
                        Len(t[fd]))]

midi_reader_get_byte(s) ==
    IF s.push_back > -1
    THEN [b |-> s.push_back, src |-> [s EXCEPT !.push_back = -1]]
    ELSE IF Len(s.buf) > 0 /\ s.buf_offset < Len(s.buf)
    THEN [b |-> s.buf[s.buf_offset + 1],
          src |-> [s EXCEPT !.buf_offset = @ + 1]]
    ELSE [b |-> -1, src |-> s]

(***************************************************************************)
(* The multiplexer (midi_reader_update).                                   *)
(***************************************************************************)
\* if (++start >= reader->nsources) start = 0
NextStart(st, n) ==
    IF st + 1 >= n THEN 0 ELSE st + 1

\* every outcome but no-data taken as terminal
TerminalButNoData(st) ==
    st # MIDIF_NODATA

\* the outcomes after which midi_reader_update resets the source's frame
Terminal(st) ==
    st \in {MIDIF_COMPLETE, MIDIF_ERROR, MIDIF_IOERROR, MIDIF_SKIPPED}

\* one turn of the loop of midi_reader_update for source n, once its byte
\* is pushed with result p: rd, the source and the event
Visited(n, gsrc, b, p) ==
    [rd |-> p.rd,
     src |-> IF Terminal(p.st)
             THEN [p.src EXCEPT !.current = midi_frame_reset]
             ELSE p.src,
     ev |-> Event(n, gsrc, b, p)]

\* one turn of the loop for source n; g is the result of midi_reader_get_byte
Visit(rd, n, g) ==
    Visited(n, g.src, g.b, midi_reader_push_byte(rd, g.src, g.b))

\* the end of one turn of the loop, whose result is v: src++
FillNext(st, src, v) ==
    [rd |-> v.rd,
     sources |-> SetSrc(st.sources, src, v.src),
     ev |-> Append(st.ev, v.ev),
     src |-> src + 1]

\* one turn of the loop after the wrap-around test
FillAt(st, src) ==
    FillNext(st, src,
             Visit(st.rd, src, midi_reader_get_byte(SrcAt(st.sources, src))))

\* one turn of the loop: st.src is the loop variable src before its
\* wrap-around test
FillTurn(st) ==
    FillAt(st, IF st.src >= nsources THEN 0 ELSE st.src)

\* the reader state a set of one state holds
TheState(S) ==
    CHOOSE st \in S : TRUE

RECURSIVE FillQueue(_, _)
\* n turns of the for loop of midi_reader_update from state st: the first
\* half of the turns, then the others from the state mid these leave
FillQueue(st, n) ==
    IF n <= 0 THEN st
    ELSE IF n = 1 THEN TheState({FillTurn(s) : s \in {st}})
    ELSE TheState({FillQueue(mid, n - (n \div 2)) :
                      mid \in {FillQueue(st, n \div 2)}})

\* the whole of midi_reader_update but its return value, with the devices
\* holding t: one turn for each source
UpdateResult(t) ==
    FillQueue([rd |-> [total |-> total, frames |-> frames, dump |-> dump],
               sources |-> midi_reader_read(sources, t),
               ev |-> <<>>,
               src |-> NextStart(start, nsources)],
              nsources)

\* the return value of midi_reader_update
HasFrame(fr) ==
    fr.len > 0 /\ fr.offset < fr.len

(***************************************************************************)
(* Injection (midi_reader_inject).                                         *)
(***************************************************************************)
RECURSIVE InjectLoop(_, _, _, _, _)
\* one turn of the loop of midi_reader_inject, once byte i is pushed with
\* result p; 'early' is the return from inside the loop
InjectNext(src, mf, i, evs, p) ==
    IF p.st = MIDIF_COMPLETE \/ p.st = MIDIF_NEXT
    THEN InjectLoop(p.rd, p.src, mf, i + 1,
                    Append(evs, Event(-1, src, mf.data[i + 1], p)))
    ELSE [rd |-> p.rd, src |-> p.src, i |-> i,
          ev |-> Append(evs, Event(-1, src, mf.data[i + 1], p)),
          early |-> TRUE]

\* the for loop over the bytes of the injected frame
InjectLoop(rd, src, mf, i, evs) ==
    IF i >= mf.len
    THEN [rd |-> rd, src |-> src, i |-> i, ev |-> evs, early |-> FALSE]
    ELSE InjectNext(src, mf, i, evs,
                    midi_reader_push_byte(rd, src, mf.data[i + 1]))

\* a pending running-status frame is concluded by a fake active sensing
NeedsFlush(src) ==
    src.running # 0

\* the fake active sensing is pushed with result p
Flushed(l, p) ==
    [ret |-> l.i, rd |-> p.rd, ev |-> Append(l.ev, Event(-1, l.src, 254, p))]

\* the end of midi_reader_inject; l is the result of the loop
InjectEnd(l) ==
    IF ~l.early /\ NeedsFlush(l.src)
    THEN Flushed(l, midi_reader_push_byte(l.rd, l.src, 254))
    ELSE [ret |-> l.i, rd |-> l.rd, ev |-> l.ev]

\* returns the byte count (ret), rd and the events
midi_reader_inject(rd, mf) ==
    IF mf.len = 0
    THEN [ret |-> 0, rd |-> rd, ev |-> <<>>]
    ELSE InjectEnd(InjectLoop(rd,
                [midi_reader_reset_source(FALSE) EXCEPT !.fd = -1],
                mf, 0, <<>>))

(***************************************************************************)
(* The state after midi_reader_init, and the operations.                   *)
(***************************************************************************)
\* the value recorded for a bool result
Bool(b) ==
    IF b THEN 1 ELSE 0

\* the record of an operation: its name, its result, the events of its
\* calls of midi_reader_push_byte, and the frame it was given or returned
Op(op, ret, ev, frame) ==
    [op |-> op, ret |-> ret, ev |-> ev, frame |-> frame]

\* midi_reader_init (reader, f, skip); the static start is -1
midi_reader_init(f, skip) ==
    /\ flags = f
    /\ to_skip = skip
    /\ sources = <<>>
    /\ nsources = 0
    /\ dumpfd = -1
    /\ frames = [len |-> 0, offset |-> 0, frames |-> <<>>]
    /\ callback = "none"
    /\ total = ZeroStats
    /\ start = -1
    /\ dump = <<>>
    /\ last = Op("init", 0, <<>>, midi_frame_reset)
    /\ hist = [stored |-> <<>>, got |-> <<>>, closed |-> <<>>]

\* no update, get-next or inject has been called yet
Fresh ==
    last.op \in {"init", "setup"}

\* the loop of midi_reader_add_source that looks for the descriptor
Registered(fd) ==
    \E i \in 0..(nsources - 1) : SrcAt(sources, i).fd = fd

\* the channel stored by midi_reader_add_source
ChannelArg(channel) ==
    IF channel >= 1 /\ channel <= 16 THEN channel ELSE -1

AddSource(fd, channel) ==
    /\ IF fd > -1 /\ nsources < MIDI_READER_IN_MAX /\ ~Registered(fd)
       THEN /\ sources' = SetSrc(sources, nsources,
                    [SrcAt(sources, nsources) EXCEPT
                        !.fd = fd, !.channel = ChannelArg(channel)])
            /\ nsources' = nsources + 1
       ELSE UNCHANGED <<sources, nsources>>
    /\ last' = Op("setup", 0, <<>>, midi_frame_reset)
    /\ UNCHANGED <<flags, to_skip, dumpfd, frames, callback, total, start,
                   tape, dump, env, hist>>

\* a shift that copies nothing
ShiftNothing(srcs, i) ==
    srcs

\* the slot of the first registered source with descriptor fd
SlotOf(fd) ==
    CHOOSE i \in 0..(nsources - 1) :
        /\ SrcAt(sources, i).fd = fd
        /\ \A k \in 0..(i - 1) : SrcAt(sources, k).fd # fd

\* the descriptor midi_reader_reset_source (src, true) passes to close ():
\* src->fd is read after the memset cleared it
ResetCloses ==
    midi_reader_reset_source(FALSE).fd

\* midi_reader_reset_source_n (reader, src, to_close) on the array srcs
midi_reader_reset_source_n(srcs, src, to_close) ==
    IF src >= 0 /\ src < MIDI_READER_IN_MAX
    THEN SetSrc(srcs, src, midi_reader_reset_source(to_close))
    ELSE srcs

\* the array after sources[j - 1] = sources[j] for j = i + 1 .. 63
ShiftDown(srcs, i) ==
    [k \in 1..Len(srcs) |->
        IF k - 1 >= i /\ k < MIDI_READER_IN_MAX
        THEN SrcAt(srcs, k)
        ELSE srcs[k]]

\* the else branch of midi_reader_remove_source for slot i; the loop ends
\* with j = MIDI_READER_IN_MAX
Removed(i) ==
    /\ sources' = midi_reader_reset_source_n(
                        ShiftDown(midi_reader_reset_source_n(sources, i, TRUE),
                                  i),
                        MIDI_READER_IN_MAX, FALSE)
    /\ nsources' = nsources - 1
    /\ hist' = [hist EXCEPT !.closed = Append(@, ResetCloses)]
    /\ last' = Op("remove_source", 1, <<>>, midi_frame_reset)

RemoveSource(fd) ==
    /\ IF fd < 0 \/ nsources = 0 \/ ~Registered(fd)
       THEN /\ last' = Op("remove_source", 0, <<>>, midi_frame_reset)
            /\ UNCHANGED <<sources, nsources, hist>>
       ELSE Removed(SlotOf(fd))
    /\ UNCHANGED <<flags, to_skip, dumpfd, frames, callback, total, start,
                   tape, dump, env>>

\* midi_reader_close
Close ==
    /\ IF nsources = 0
       THEN UNCHANGED <<sources, dumpfd, hist>>
       ELSE /\ sources' = [k \in 1..Len(sources) |->
                                IF k <= nsources
                                THEN midi_reader_reset_source(TRUE)
                                ELSE sources[k]]
            /\ dumpfd' = -1
            /\ hist' = [hist EXCEPT !.closed =
                            @ \o [k \in 1..nsources |-> ResetCloses]
                              \o (IF dumpfd > -1 THEN <<dumpfd>> ELSE <<>>)]
    /\ last' = Op("close", 0, <<>>, midi_frame_reset)
    /\ UNCHANGED <<flags, to_skip, nsources, frames, callback, total, start,
                   tape, dump, env>>

SetDumpFd(fd) ==
    /\ dumpfd' = IF fd > -1 THEN fd ELSE dumpfd
    /\ last' = Op("setup", 0, <<>>, midi_frame_reset)
    /\ UNCHANGED <<flags, to_skip, sources, nsources, frames, callback, total,
                   start, tape, dump, env, hist>>

SetCallback(cb) ==
    /\ callback' = cb
    /\ last' = Op("setup", 0, <<>>, midi_frame_reset)
    /\ UNCHANGED <<flags, to_skip, sources, nsources, dumpfd, frames, total,
                   start, tape, dump, env, hist>>

\* the frames the events ev stored, in order
StoredBy(ev) ==
    [k \in 1..Len(ev) |-> ev[k].out]

\* the history after an operation with events ev that returned frame got
\* (an empty sequence when it returned none)
History(ev, got) ==
    [hist EXCEPT
        !.stored = @ \o StoredBy(SelectSeq(ev, LAMBDA e : e.stored)),
        !.got = @ \o got]

\* the devices once the bytes of arr have arrived; arr gives, per
\* descriptor, the bytes that arrive before the call reads the devices
Arrived(arr) ==
    [fd \in DOMAIN tape |-> tape[fd] \o arr[fd]]

\* bytes arrive only at the devices the reader has registered
ArrivesAtSources(arr) ==
    \A fd \in DOMAIN arr : arr[fd] # <<>> => Registered(fd)

\* the number of bytes in arr
ArrCount(arr) ==
    LET RECURSIVE Sum(_)
        Sum(S) == IF S = {} THEN 0
                  ELSE LET x == CHOOSE x \in S : TRUE
                       IN  Len(arr[x]) + Sum(S \ {x})
    IN  Sum(DOMAIN arr)

\* the reader after midi_reader_update did r and the call returned ret and
\* the frame got (an empty sequence when it returned none), leaving queue fr
Ran(op, r, fr, ret, got) ==
    /\ sources' = r.sources
    /\ total' = r.rd.total
    /\ frames' = fr
    /\ dump' = r.rd.dump
    /\ last' = Op(op, ret, r.ev,
                  IF got = <<>> THEN midi_frame_reset ELSE got[1])
    /\ hist' = History(r.ev, got)
    /\ start' = NextStart(start, nsources)

\* the devices after the bytes of arr arrived and were read
Consumed(arr, t) ==
    /\ ArrCount(arr) <= env.bytes
    /\ tape' = TapeAfterRead(sources, t)
    /\ env' = [env EXCEPT !.bytes = @ - ArrCount(arr)]
    /\ UNCHANGED <<flags, to_skip, nsources, dumpfd, callback>>

\* midi_reader_update did r
Updated(r) ==
    Ran("update", r, r.rd.frames, Bool(HasFrame(r.rd.frames)), <<>>)

Update(arr) ==
    /\ Consumed(arr, Arrived(arr))
    /\ Updated(UpdateResult(Arrived(arr)))

\* a dequeue that does not advance the read offset
DequeueNoAdvance(fr) ==
    IF fr.len > 0 /\ fr.offset < fr.len
    THEN [ret |-> fr.offset, frame |-> fr.frames[fr.offset + 1], frames |-> fr]
    ELSE [ret |-> -1, frame |-> midi_frame_reset, frames |-> fr]

\* the frame midi_reader_get_next points at, and the queue after the call
Dequeue(fr) ==
    IF HasFrame(fr)
    THEN [ret |-> fr.offset, frame |-> fr.frames[fr.offset + 1],
          frames |-> [fr EXCEPT !.offset = @ + 1]]
    ELSE [ret |-> -1, frame |-> midi_frame_reset, frames |-> fr]

\* midi_reader_update did r and the dequeue did d
Got(r, d) ==
    Ran("get_next", r, d.frames, d.ret,
        IF d.ret = -1 THEN <<>> ELSE <<d.frame>>)

\* midi_reader_update did r
GetNextAfter(r) ==
    Got(r, Dequeue(r.rd.frames))

GetNext(arr) ==
    /\ Consumed(arr, Arrived(arr))
    /\ GetNextAfter(UpdateResult(Arrived(arr)))

\* midi_reader_inject (reader, mf) did r
Injected(mf, r) ==
    /\ total' = r.rd.total
    /\ frames' = r.rd.frames
    /\ dump' = r.rd.dump
    /\ last' = Op("inject", r.ret, r.ev, mf)
    /\ hist' = History(r.ev, <<>>)

Inject(mf) ==
    /\ env.inject > 0
    /\ Injected(mf, midi_reader_inject(
                    [total |-> total, frames |-> frames, dump |-> dump], mf))
    /\ env' = [env EXCEPT !.inject = @ - 1]
    /\ UNCHANGED <<flags, to_skip, sources, nsources, dumpfd, callback,
                   start, tape>>

\* a clear-queue that clears the cumulative statistics as well
ClearQueueAndStats ==
    /\ frames' = [len |-> 0, offset |-> 0, frames |-> <<>>]
    /\ total' = ZeroStats
    /\ last' = Op("clear_queue", 0, <<>>, midi_frame_reset)
    /\ UNCHANGED <<flags, to_skip, sources, nsources, dumpfd, callback,
                   start, tape, dump, env, hist>>

ClearQueue ==
    /\ frames' = IF frames.len > 0
                 THEN [len |-> 0, offset |-> 0, frames |-> <<>>]
                 ELSE frames
    /\ last' = Op("clear_queue", 0, <<>>, midi_frame_reset)
    /\ UNCHANGED <<flags, to_skip, sources, nsources, dumpfd, callback,
                   total, start, tape, dump, env, hist>>

(***************************************************************************)
(* Spec: a reader with a skip-list or running-status expansion, a dump     *)
(* sink and one device with or without a channel remap.  The device and    *)
(* the sink are configured before the reader runs.                         *)
(***************************************************************************)
\* the descriptor of the device
Fds == {3}
\* the descriptor of the dump sink
DumpFds == {5}
\* the 'channel' arguments of midi_reader_add_source
Channels == {0, 1, 16}
\* the bytes the device sends: note on of channel 2, a data byte, timing
\* clock
Alphabet == {145, 16, 248}
\* the flags and skip-list given to midi_reader_init: a skip-list of note on
\* of channel 1 and timing clock, or running-status expansion
Configs ==
    {[flags |-> {}, to_skip |-> <<144, 248>>],
     [flags |-> {"EXPAND"}, to_skip |-> <<>>]}
\* the arrivals of one call: at most one byte per device
Arrivals ==
    [Fds -> {<<>>} \cup {<<b>> : b \in Alphabet}]

\* no byte arrives
NoArr ==
    [fd \in DOMAIN tape |-> <<>>]

\* the environment at the start: b bytes may arrive, i injections may be
\* made, and the devices play stream p (0: none)
Env(b, i, p) ==
    [bytes |-> b, inject |-> i, pat |-> p]

Init ==
    /\ \E c \in Configs : midi_reader_init(c.flags, c.to_skip)
    /\ tape = [fd \in Fds |-> <<>>]
    /\ env = Env(MaxBytes, 0, 0)

Next ==
    \/ \E fd \in Fds, ch \in Channels : Fresh /\ AddSource(fd, ch)
    \/ \E fd \in DumpFds : Fresh /\ SetDumpFd(fd)
    \/ \E arr \in Arrivals : ArrivesAtSources(arr) /\ Update(arr)
    \/ \E arr \in Arrivals : ArrivesAtSources(arr) /\ GetNext(arr)

Spec ==
    Init /\ [][Next]_vars

\* the events of the last operation
Events ==
    {last.ev[k] : k \in 1..Len(last.ev)}

\* the bytes of a frame after the first
Rest(mf) ==
    SubSeq(mf.data, 2, mf.len)

(***************************************************************************)
(* C4 (as claimed): no frame whose first byte is in the skip-list is ever  *)
(* returned by get-next or written to the dump sink, whatever the channel  *)
(* remap of its source, and every finalised frame whose first byte is in   *)
(* the skip-list is counted as skipped.                                    *)
(***************************************************************************)
C4_SkipListNeverObserved ==
    /\ (last.op = "get_next" /\ last.ret # -1)
            => ~IsSkipped(to_skip, last.frame)
    /\ \A e \in Events :
        /\ e.dumped => ~IsSkipped(to_skip, e.out)
        /\ (e.proc /\ IsSkipped(to_skip, e.fin))
                => (e.st = MIDIF_SKIPPED /\ ~e.stored /\ ~e.dumped)

(***************************************************************************)
(* C5: the first byte of a completed frame of a source registered with     *)
(* channel K in 1..16, finalised with a channel-voice status first, has    *)
(* the low nibble K - 1 and the high nibble received; the first byte of    *)
(* any other completed frame is the one received.  The other bytes are     *)
(* never changed by the remap: without expansion the frame keeps its       *)
(* length and its other bytes.  The frame stored in the queue is the       *)
(* completed frame.  (A completed frame of length 0 has no first byte.)    *)
(***************************************************************************)
C5_ChannelRemap ==
    \A e \in Events :
        (e.proc /\ e.st = MIDIF_COMPLETE) =>
            /\ e.out.len > 0 =>
                    IF e.ch \in 1..16 /\ D0(e.fin) \in 128..239
                    THEN /\ D0(e.out) % 16 = e.ch - 1
                         /\ D0(e.out) \div 16 = D0(e.fin) \div 16
                    ELSE D0(e.out) = D0(e.fin)
            /\ "EXPAND" \notin flags =>
                    (e.out.len = e.fin.len /\ Rest(e.out) = Rest(e.fin))
            /\ e.stored => hist.stored[Len(hist.stored)] = e.out

\* a note on of channel 2 was remapped to channel 16 and stored
C5_Witness ==
    \E e \in Events :
        /\ e.proc /\ e.st = MIDIF_COMPLETE /\ e.stored
        /\ e.ch = 16 /\ D0(e.fin) = 145 /\ D0(e.out) = 159
        /\ frames.frames[frames.len] = e.out

(***************************************************************************)
(* SpecQueue: the queue of a blank reader with one device that sends       *)
(* 1-byte real-time messages, read, consumed, injected into and cleared    *)
(* in any order.                                                           *)
(***************************************************************************)
\* bytes that may arrive at the device in the whole run (SpecQueue)
MaxQueueBytes == 3
\* calls of midi_reader_inject in the whole run (SpecQueue)
MaxQueueInject == 1
\* the arrivals of one call: timing clock, start, or nothing
QueueArrivals ==
    [Fds -> {<<>>, <<248>>, <<250>>}]
\* the frames given to midi_reader_inject: a note on and an active sensing
QueueInjectFrames ==
    {[len |-> 3, data |-> <<145, 16, 16>>], [len |-> 1, data |-> <<254>>]}

InitQueue ==
    /\ midi_reader_init({}, <<>>)
    /\ tape = [fd \in Fds |-> <<>>]
    /\ env = Env(MaxQueueBytes, MaxQueueInject, 0)

NextQueue ==
    \/ \E fd \in Fds : Fresh /\ AddSource(fd, 0)
    \/ \E arr \in QueueArrivals : ArrivesAtSources(arr) /\ Update(arr)
    \/ \E arr \in QueueArrivals : ArrivesAtSources(arr) /\ GetNext(arr)
    \/ \E mf \in QueueInjectFrames : Inject(mf)
    \/ ClearQueue

SpecQueue ==
    InitQueue /\ [][NextQueue]_vars

\* the unconsumed entries of the queue, oldest first
Unconsumed(fr) ==
    SubSeq(fr.frames, fr.offset + 1, fr.len)

\* the last n elements of a sequence
LastN(sq, n) ==
    SubSeq(sq, Len(sq) - n + 1, Len(sq))

RECURSIVE IsSubSeq(_, _)
\* a is b with some elements left out
IsSubSeq(a, b) ==
    IF a = <<>> THEN TRUE
    ELSE IF b = <<>> THEN FALSE
    ELSE IF Head(a) = Head(b) THEN IsSubSeq(Tail(a), Tail(b))
    ELSE IsSubSeq(a, Tail(b))

(***************************************************************************)
(* C10: get-next returns no frame exactly when, after its update, the      *)
(* queue has no unconsumed entry; otherwise it returns the entry at the    *)
(* read offset, the oldest unconsumed one, and advances the offset by one. *)
(* The unconsumed entries are always the most recently stored frames in    *)
(* the order they were stored, so the frames returned are stored frames    *)
(* in the order they were stored, each at most once.                       *)
(***************************************************************************)
C10_GetNextFifo ==
    /\ frames.offset <= frames.len
    /\ Len(hist.stored) >= frames.len - frames.offset
    /\ Unconsumed(frames) = LastN(hist.stored, frames.len - frames.offset)
    /\ IsSubSeq(hist.got, hist.stored)
    /\ last.op = "get_next" =>
        IF last.ret = -1
        THEN /\ ~HasFrame(frames)
             /\ \A e \in Events : ~e.stored
        ELSE /\ frames.offset = last.ret + 1
             /\ last.frame = frames.frames[last.ret + 1]
             /\ last.frame = hist.got[Len(hist.got)]
             /\ last.frame = LastN(hist.stored,
                                   frames.len - frames.offset + 1)[1]

\* the second frame stored is the second frame returned, while a third
\* waits in the queue
C10_Witness ==
    /\ last.op = "get_next" /\ last.ret = 1
    /\ Len(hist.got) = 2 /\ hist.got[2] = hist.stored[2]
    /\ hist.got[1] # hist.got[2]
    /\ HasFrame(frames)

(***************************************************************************)
(* SpecParse: a blank reader (no flags, no skip-list, no callback) with    *)
(* one device that sends status bytes of every fixed-length channel-voice  *)
(* range, data bytes and a real-time byte, read byte by byte.              *)
(***************************************************************************)
\* bytes that may arrive at the device in the whole run (SpecParse)
MaxParseBytes == 4
\* the first and last status byte of each range, two data bytes, a timing
\* clock
ParseAlphabet ==
    {128, 191, 192, 223, 224, 239, 0, 127, 248}
ParseArrivals ==
    [Fds -> {<<b>> : b \in ParseAlphabet}]

InitParse ==
    /\ midi_reader_init({}, <<>>)
    /\ tape = [fd \in Fds |-> <<>>]
    /\ env = Env(MaxParseBytes, 0, 0)

NextParse ==
    \/ \E fd \in Fds : Fresh /\ AddSource(fd, 0)
    \/ \E arr \in ParseArrivals : ArrivesAtSources(arr) /\ Update(arr)

SpecParse ==
    InitParse /\ [][NextParse]_vars

\* the status bytes of the 3-byte and of the 2-byte channel-voice messages
Status3 ==
    (128..191) \cup (224..239)
Status2 ==
    192..223

\* event e pushes a byte of a fixed-length channel-voice message that began
\* on an empty frame: its status byte, or a data byte up to the last
\* expected one
MessageByte(e) ==
    \/ e.pre.len = 0 /\ e.b \in Status3 \cup Status2
    \/ /\ e.b \in 0..127
       /\ e.run = D0(e.pre)
       /\ \A k \in 2..e.pre.len : e.pre.data[k] < 128
       /\ \/ D0(e.pre) \in Status3 /\ e.pre.len \in {1, 2}
          \/ D0(e.pre) \in Status2 /\ e.pre.len = 1

\* event e pushes the last expected byte of such a message
LastMessageByte(e) ==
    /\ MessageByte(e)
    /\ \/ D0(e.pre) \in Status3 /\ e.pre.len = 2
       \/ D0(e.pre) \in Status2 /\ e.pre.len = 1

MaxData == 128
\* the most bytes between 0xF0 and 0xF7 (SpecLong)
MaxBody == 127

\* the i-th data byte of a stream
DataByte(i) ==
    (i * 37) % 128

\* the i-th byte of a system exclusive body of kind k: data bytes, or data
\* bytes mixed with status and real-time bytes other than 0xF7
BodyByte(k, i) ==
    IF k = 1 /\ i % 3 = 0
    THEN IF i % 2 = 0 THEN 248 ELSE 144 + (i % 16)
    ELSE DataByte(i)

\* status byte st, m data bytes, closing status byte cl
RunningStream(st, m, cl) ==
    <<st>> \o [i \in 1..m |-> DataByte(i)] \o <<cl>>

\* 0xF0, m bytes of kind k, 0xF7
SysexStream(k, m) ==
    <<240>> \o [i \in 1..m |-> BodyByte(k, i)] \o <<247>>

LongStreams ==
    {RunningStream(144, m, 248) : m \in 0..MaxData}
        \cup {RunningStream(239, m, 128) : m \in 0..MaxData}
        \cup {SysexStream(k, m) : k \in {0, 1}, m \in 0..MaxBody}

InitLong ==
    /\ midi_reader_init({}, <<>>)
    /\ \E st \in LongStreams : tape = [fd \in Fds |-> st]
    /\ env = Env(0, 0, 0)

NextLong ==
    \/ \E fd \in Fds : Fresh /\ AddSource(fd, 0)
    \/ Update(NoArr)

SpecLong ==
    InitLong /\ [][NextLong]_vars

\* the n bytes the source of event e consumed before the byte of e, and
\* with it
ConsumedBefore(e, n) ==
    SubSeq(SrcAt(sources, e.src).buf,
           SrcAt(sources, e.src).buf_offset - n,
           SrcAt(sources, e.src).buf_offset - 1)
ConsumedWith(e, n) ==
    SubSeq(SrcAt(sources, e.src).buf,
           SrcAt(sources, e.src).buf_offset - n + 1,
           SrcAt(sources, e.src).buf_offset)

(***************************************************************************)
(* C2: while a channel-voice status byte followed by data bytes is         *)
(* accumulated under running status, a data byte finalises nothing and     *)
(* yields `next`; a new status byte arriving after N >= 1 whole pairs,     *)
(* with 1 + 2N below the maximum frame size, finalises exactly one frame   *)
(* (the first the reader has read, and it is stored) of length 1 + 2N,     *)
(* whose bytes are the status byte and the 2N data bytes in the order the  *)
(* source consumed them.                                                   *)
(***************************************************************************)
C2_RunningStatus ==
    \A e \in Events :
        (e.run \in 128..239 /\ e.run = D0(e.pre)
                /\ e.pre.len < MIDI_FRAME_MAX) =>
            /\ e.b \in 0..127 =>
                /\ e.st = MIDIF_NEXT /\ ~e.proc
                /\ total.read = 0 /\ hist.stored = <<>>
            /\ (e.b >= 128 /\ e.pre.len >= 3 /\ e.pre.len % 2 = 1) =>
                /\ e.st = MIDIF_COMPLETE /\ e.proc /\ e.stored
                /\ e.fin.len = e.pre.len
                /\ e.fin.data = ConsumedBefore(e, e.pre.len)
                /\ e.out = e.fin
                /\ total.read = 1
                /\ hist.stored = <<e.fin>>

\* the longest frame: a status byte and 63 pairs, closed by a timing clock
C2_Witness ==
    \E e \in Events :
        /\ e.run = 144 /\ e.b = 248 /\ e.pre.len = MIDI_FRAME_MAX - 1
        /\ e.st = MIDIF_COMPLETE
        /\ frames.frames[1] = e.pre
        /\ e.pre.data[2] # e.pre.data[3]

(***************************************************************************)
(* C3: on a blank source, after 0xF0 every byte other than 0xF7 yields     *)
(* `next` while the frame holds fewer than 128 bytes, and 0xF7 arriving as *)
(* byte number 2 to 128 yields `complete` with one frame, stored           *)
(* unchanged, that holds exactly the bytes the source consumed from 0xF0   *)
(* to 0xF7.                                                                *)
(***************************************************************************)
C3_Sysex ==
    \A e \in Events :
        /\ (e.pre.len = 0 /\ e.b = 240) => (e.st = MIDIF_NEXT /\ ~e.proc)
        /\ (e.pre.len \in 1..(MIDI_FRAME_MAX - 1) /\ D0(e.pre) = 240) =>
            IF e.b = 247
            THEN /\ e.st = MIDIF_COMPLETE /\ e.proc /\ e.stored
                 /\ e.fin.len = e.pre.len + 1
                 /\ e.fin.data = ConsumedWith(e, e.pre.len + 1)
                 /\ e.out = e.fin
                 /\ total.read = 1
                 /\ hist.stored = <<e.fin>>
            ELSE /\ e.st = MIDIF_NEXT /\ ~e.proc
                 /\ hist.stored = <<>>

\* a system exclusive message of 128 bytes, status and real-time bytes
\* among them, completed on its 0xF7
C3_Witness ==
    \E e \in Events :
        /\ e.b = 247 /\ e.pre.len = MIDI_FRAME_MAX - 1
        /\ e.st = MIDIF_COMPLETE
        /\ frames.frames[1].len = MIDI_FRAME_MAX
        /\ frames.frames[1].data[4] = 147
        /\ frames.frames[1].data[MIDI_FRAME_MAX] = 247

(***************************************************************************)
(* SpecShed: a blank reader with one device that holds more 1-byte         *)
(* real-time messages than the queue has entries.  The reader updates      *)
(* until the device is drained, and only then is the queue consumed.       *)
(***************************************************************************)
\* the messages the device holds beyond the capacity of the queue (SpecShed)
MaxExtra == 3

\* the i-th message of stream p: timing clocks, or a mix of real-time bytes
ShedByte(p, i) ==
    IF p = 1 THEN 248
    ELSE IF i % 3 = 0 THEN 250 ELSE IF i % 3 = 1 THEN 251 ELSE 254

\* the first n messages of stream p
ShedStream(p, n) ==
    [i \in 1..n |-> ShedByte(p, i)]

\* everything the device held has been pushed
Drained ==
    /\ nsources = 1
    /\ \A fd \in DOMAIN tape : tape[fd] = <<>>
    /\ SrcAt(sources, 0).buf_offset >= Len(SrcAt(sources, 0).buf)
    /\ SrcAt(sources, 0).push_back = -1

InitShed ==
    /\ midi_reader_init({}, <<>>)
    /\ \E p \in {1, 2} , x \in 1..MaxExtra :
        /\ tape = [fd \in Fds |->
                        ShedStream(p, MIDI_READER_FRAMES_MAX + x)]
        /\ env = Env(0, 0, p)

NextShed ==
    \/ \E fd \in Fds : Fresh /\ AddSource(fd, 0)
    \/ ~Drained /\ Update(NoArr)
    \/ Drained /\ GetNext(NoArr)

SpecShed ==
    InitShed /\ [][NextShed]_vars

\* the smaller of two numbers
Min(a, b) ==
    IF a < b THEN a ELSE b

(***************************************************************************)
(* C6: when the frames finalised with no get-next in between outnumber the *)
(* capacity of the queue (1024), the first 1024 are stored, every further  *)
(* frame is dropped with outcome `complete`, cumulative `missed` is the    *)
(* number of frames dropped, and `errors` and the `missed` of the source   *)
(* stay 0; get-next then returns the first 1024 frames in the order they   *)
(* were finalised.                                                         *)
(***************************************************************************)
C6_QueueShedding ==
    /\ Len(hist.stored) = Min(total.read, MIDI_READER_FRAMES_MAX)
    /\ hist.stored = [k \in 1..Len(hist.stored) |->
                        [len |-> 1, data |-> <<ShedByte(env.pat, k)>>]]
    /\ total.missed = total.read - Len(hist.stored)
    /\ total.errors = 0
    /\ total.skipped = 0
    /\ \A i \in 0..(nsources - 1) :
        /\ SrcAt(sources, i).stats.missed = 0
        /\ SrcAt(sources, i).stats.errors = 0
        /\ SrcAt(sources, i).stats.read = total.read
    /\ \A e \in Events :
        e.proc => /\ e.st = MIDIF_COMPLETE
                  /\ e.stored = (total.read <= MIDI_READER_FRAMES_MAX)
    /\ hist.got = SubSeq(hist.stored, 1, Len(hist.got))
    /\ hist.got = <<>> => /\ frames.offset = 0
                          /\ frames.len = Len(hist.stored)
                          /\ Unconsumed(frames) = hist.stored

\* every message was read, the last MaxExtra of them were dropped, and
\* get-next has begun to return the stored frames
C6_Witness ==
    /\ total.read = MIDI_READER_FRAMES_MAX + MaxExtra
    /\ total.missed = MaxExtra
    /\ frames.len = MIDI_READER_FRAMES_MAX
    /\ Len(hist.got) = 3
    /\ hist.got[2] # hist.got[3]
    /\ last.op = "get_next" /\ last.ret = 2

(***************************************************************************)
(* SpecInject: a reader without devices and without callback, with or      *)
(* without running-status expansion and with a skip-list of timing clock,  *)
(* given frames by midi_reader_inject and consumed by get-next.            *)
(***************************************************************************)
\* calls of midi_reader_inject in the whole run (SpecInject)
MaxInject == 2

\* the flags and skip-lists given to midi_reader_init
InjectConfigs ==
    {[flags |-> {}, to_skip |-> <<248>>],
     [flags |-> {"EXPAND"}, to_skip |-> <<>>]}

\* a well-formed 3-byte channel-voice frame
WellFormed3(mf) ==
    /\ mf.len = 3
    /\ mf.data[1] \in (128..191) \cup (224..239)
    /\ mf.data[2] < 128
    /\ mf.data[3] < 128

\* the frames injected: well-formed 3-byte frames with the first and last
\* status byte of each range, and a real-time, a 2-byte and a running-status
\* frame
InjectFrames ==
    {[len |-> 3, data |-> <<st, d1, d2>>] :
            st \in {128, 145, 191, 224, 239}, d1 \in {0, 127}, d2 \in {0, 64}}
        \cup {[len |-> 1, data |-> <<254>>],
              [len |-> 2, data |-> <<192, 5>>],
              [len |-> 5, data |-> <<144, 1, 2, 3, 4>>]}

InitInject ==
    /\ \E c \in InjectConfigs : midi_reader_init(c.flags, c.to_skip)
    /\ tape = <<>>
    /\ env = Env(0, MaxInject, 0)

NextInject ==
    \/ \E mf \in InjectFrames : Inject(mf)
    \/ GetNext(NoArr)

SpecInject ==
    InitInject /\ [][NextInject]_vars

(***************************************************************************)
(* C7: on a reader with no callback, a queue that is not full and a        *)
(* skip-list that does not hold its first byte, inject of a well-formed    *)
(* 3-byte channel-voice frame returns 3 and stores a frame with the same   *)
(* 3 bytes behind the frames already queued; every stored frame is         *)
(* returned by get-next in the order stored, so get-next returns the       *)
(* frame after the frames queued before the injection.                     *)
(***************************************************************************)
C7_InjectRoundTrip ==
    /\ hist.got = SubSeq(hist.stored, 1, Len(hist.got))
    /\ Unconsumed(frames) = SubSeq(hist.stored, Len(hist.got) + 1,
                                   Len(hist.stored))
    /\ (last.op = "get_next" /\ last.ret = -1) => hist.got = hist.stored
    /\ (last.op = "inject" /\ WellFormed3(last.frame)
            /\ ~IsSkipped(to_skip, last.frame) /\ callback = "none") =>
        /\ last.ret = 3
        /\ Len(last.ev) = 4
        /\ last.ev[4].stored /\ last.ev[4].st = MIDIF_COMPLETE
        /\ last.ev[4].out = last.frame
        /\ hist.stored # <<>>
        /\ hist.stored[Len(hist.stored)] = last.frame
        /\ HasFrame(frames)
        /\ frames.frames[frames.len] = last.frame

\* a frame was injected behind an earlier one, and the second get-next
\* returned it
C7_Witness ==
    /\ last.op = "get_next" /\ last.ret = 1
    /\ WellFormed3(last.frame)
    /\ last.frame.data = <<239, 127, 64>>
    /\ hist.stored = <<[len |-> 3, data |-> <<145, 0, 0>>], last.frame>>
    /\ hist.got = hist.stored

(***************************************************************************)
(* SpecExpand: midi_frame_expand_running applied to a frame the caller     *)
(* holds, again and again.                                                 *)
(***************************************************************************)
\* the longest frame the caller holds (SpecExpand)
MaxExpandLen == 5

\* data[0] of the frames: data bytes, channel-voice status bytes of 3-byte
\* and 2-byte messages, system and real-time status bytes
ExpandFirst ==
    {0, 64, 128, 145, 192, 239, 240, 247, 248, 255}

RECURSIVE Tails(_)
\* the sequences of n bytes after data[0]
Tails(n) ==
    IF n <= 0 THEN {<<>>}
    ELSE {Append(t, d) : t \in Tails(n - 1), d \in {1, 100}}

\* the frames: of length 0, where data[0] is whatever the caller left
\* there, and of length 1 to MaxExpandLen
ExpandInputs ==
    {[len |-> 0, data |-> <<b>>] : b \in ExpandFirst}
        \cup UNION {{[len |-> n, data |-> <<b>> \o t] :
                        b \in ExpandFirst, t \in Tails(n - 1)} :
                    n \in 1..MaxExpandLen}

\* the caller's frame
Held ==
    env.mf

InitExpand ==
    /\ midi_reader_init({}, <<>>)
    /\ tape = <<>>
    /\ \E mf \in ExpandInputs : env = Env(0, 0, 0) @@ [mf |-> mf]

\* midi_frame_expand_running (&mf) returned r
ExpandedTo(r) ==
    /\ last' = Op("expand", Bool(r.ok), <<>>, Held)
    /\ env' = [env EXCEPT !.mf = r.mf]

ExpandFrame ==
    /\ ExpandedTo(midi_frame_expand_running(Held))
    /\ UNCHANGED <<flags, to_skip, sources, nsources, dumpfd, frames,
                   callback, total, start, tape, dump, hist>>

NextExpand ==
    ExpandFrame

SpecExpand ==
    InitExpand /\ [][NextExpand]_vars

\* the bytes of a frame
Bytes(mf) ==
    SubSeq(mf.data, 1, mf.len)

(***************************************************************************)
(* C8 (as claimed): running-status expansion of a frame of length 0, 1, 2  *)
(* or 3, whatever its first byte, reports success and leaves the length    *)
(* and the bytes of the frame unchanged.                                   *)
(***************************************************************************)
C8_ExpandShortUnchanged ==
    (last.op = "expand" /\ last.frame.len <= 3) =>
        /\ last.ret = 1
        /\ Held.len = last.frame.len
        /\ Bytes(Held) = Bytes(last.frame)

(***************************************************************************)
(* SpecFair: a blank reader with two devices that each hold a stream of    *)
(* 1-byte real-time messages, registered in either order.                  *)
(***************************************************************************)
\* the messages each device holds (SpecFair)
MaxFair == 4

\* the descriptors of the two devices
FairFds ==
    {3, 4}

\* the i-th message of the device fd in stream p: timing clocks everywhere,
\* or a mix that tells the devices apart
FairByte(p, fd, i) ==
    IF p = 1 THEN 248
    ELSE IF fd = 3 THEN 250 + (i % 2) ELSE 254 + (i % 2)

InitFair ==
    /\ midi_reader_init({}, <<>>)
    /\ \E p \in {1, 2} :
        /\ tape = [fd \in FairFds |-> [i \in 1..MaxFair |-> FairByte(p, fd, i)]]
        /\ env = Env(0, 0, p)

NextFair ==
    \/ \E fd \in FairFds : Fresh /\ AddSource(fd, 0)
    \/ Update(NoArr)
    \/ GetNext(NoArr)

SpecFair ==
    InitFair /\ [][NextFair]_vars

\* source i has a byte to give: pushed back, unread in its buffer, or
\* waiting at its device
HasByte(i) ==
    \/ SrcAt(sources, i).push_back > -1
    \/ SrcAt(sources, i).buf_offset < Len(SrcAt(sources, i).buf)
    \/ tape[SrcAt(sources, i).fd] # <<>>

\* the last operation ran the multiplexer
RanUpdate(l) ==
    l.op \in {"update", "get_next"}

(***************************************************************************)
(* C9: with two registered sources that both have a 1-byte real-time       *)
(* message to give, and room in the queue, a call of update (by itself or  *)
(* within get-next) stores one frame from each source, and the source      *)
(* whose frame is stored first is not the one the previous call started    *)
(* with.                                                                   *)
(***************************************************************************)
C9_Fairness ==
    [][(nsources = 2 /\ HasByte(0) /\ HasByte(1) /\ RanUpdate(last'))
        => /\ Len(last'.ev) = 2
           /\ last'.ev[1].src # last'.ev[2].src
           /\ \A k \in 1..2 :
                /\ last'.ev[k].st = MIDIF_COMPLETE
                /\ last'.ev[k].stored
                /\ last'.ev[k].out = [len |-> 1, data |-> <<last'.ev[k].b>>]
           /\ hist'.stored = hist.stored
                                \o <<last'.ev[1].out, last'.ev[2].out>>
           /\ RanUpdate(last) => last'.ev[1].src # last.ev[1].src]_vars

\* two calls stored four frames: first of the first source, then of the
\* second, then of the second, then of the first
C9_Witness ==
    /\ RanUpdate(last) /\ Len(last.ev) = 2
    /\ last.ev[1].src = 1 /\ last.ev[2].src = 0
    /\ last.ev[1].fd = 3
    /\ Len(hist.stored) = 4
    /\ hist.stored[1].data = <<255>>
    /\ hist.stored[4].data = <<254>>
    /\ hist.stored[3].data = <<250>>

(***************************************************************************)
(* SpecSources: a reader with a skip-list whose sources are registered,    *)
(* read and removed in any order, with or without a dump sink, and which   *)
(* is closed at any time.                                                  *)
(***************************************************************************)
\* bytes that may arrive at the devices in the whole run (SpecSources)
MaxSourceBytes == 2
\* once this many descriptors were closed, no source is removed and the
\* reader is not closed any more (SpecSources)
MaxClosed == 2

\* the descriptors of the devices
SourceFds ==
    {3, 4}
\* the descriptors given to midi_reader_remove_source: the devices, one
\* that is never registered, and an invalid one
RemoveFds ==
    SourceFds \cup {9, -1}
\* the arrivals of one call: at one device, a note on or a timing clock
SourceArrivals ==
    {[fd \in SourceFds |-> IF fd = d THEN <<b>> ELSE <<>>] :
        d \in SourceFds, b \in {144, 248}}

InitSources ==
    /\ midi_reader_init({}, <<248>>)
    /\ tape = [fd \in SourceFds |-> <<>>]
    /\ env = Env(MaxSourceBytes, 0, 0)

NextSources ==
    \/ \E fd \in SourceFds, ch \in {0, 2} : AddSource(fd, ch)
    \/ \E fd \in DumpFds : SetDumpFd(fd)
    \/ \E fd \in RemoveFds : Len(hist.closed) < MaxClosed /\ RemoveSource(fd)
    \/ Len(hist.closed) < MaxClosed /\ Close
    \/ \E arr \in SourceArrivals : ArrivesAtSources(arr) /\ Update(arr)

SpecSources ==
    InitSources /\ [][NextSources]_vars

\* the registered sources, in the order of the table
Table ==
    [k \in 1..nsources |-> SrcAt(sources, k - 1)]

\* the descriptors of the registered sources
TableFds ==
    {Table[k].fd : k \in 1..nsources}

\* a sequence without its element number k
Without(sq, k) ==
    SubSeq(sq, 1, k - 1) \o SubSeq(sq, k + 1, Len(sq))

\* the descriptors passed to close () by the step
NewlyClosed ==
    SubSeq(hist'.closed, Len(hist.closed) + 1, Len(hist'.closed))

\* the elements of a sequence
Range(sq) ==
    {sq[k] : k \in 1..Len(sq)}

(***************************************************************************)
(* C11 (as claimed): close passes to close () the descriptor of every      *)
(* registered source and the descriptor of the dump sink when one is set,  *)
(* whatever the number of registered sources, and no other descriptor;     *)
(* after it no source is registered.                                       *)
(***************************************************************************)
C11_CloseClosesAll ==
    [][Close =>
        /\ Range(NewlyClosed)
                = {fd \in TableFds : fd > -1}
                    \cup (IF dumpfd > -1 THEN {dumpfd} ELSE {})
        /\ nsources' = 0]_vars

(***************************************************************************)
(* C12 (as claimed): remove-source of a registered descriptor passes to    *)
(* close () that descriptor and no other (descriptor 0 in particular).     *)
(***************************************************************************)
C12_RemoveClosesHandle ==
    [][\A fd \in RemoveFds :
        (fd > -1 /\ fd \in TableFds /\ RemoveSource(fd))
            => NewlyClosed = <<fd>>]_vars

(***************************************************************************)
(* C13: remove-source of a descriptor that is not registered, or of a      *)
(* negative number, which is no descriptor, returns false and leaves the   *)
(* source table as it was; remove-source of a registered                   *)
(* descriptor returns true, takes one from the number of sources, and      *)
(* leaves in the table the other sources in their order, each with its     *)
(* descriptor, channel, buffer, frame in progress, running status and      *)
(* statistics as they were.                                                *)
(***************************************************************************)
C13_RemoveCompacts ==
    [][\A fd \in RemoveFds :
        RemoveSource(fd) =>
            IF fd < 0 \/ fd \notin TableFds
            THEN /\ last'.ret = 0
                 /\ sources' = sources /\ nsources' = nsources
            ELSE /\ last'.ret = 1
                 /\ nsources' = nsources - 1
                 /\ Table' = Without(Table, SlotOf(fd) + 1)
                 /\ fd \notin TableFds']_vars

\* the first of two sources was removed while the second, on channel 2,
\* had a frame in progress and a frame read
C13_Witness ==
    /\ last.op = "remove_source" /\ last.ret = 1
    /\ nsources = 1
    /\ Table[1].fd = 4 /\ Table[1].channel = 2
    /\ Table[1].current.len = 1 /\ Table[1].running = 144
    /\ Table[1].stats.skipped = 1
    /\ Len(sources) = 2

(***************************************************************************)
(* SpecTable: a blank reader whose source table is filled up to its        *)
(* capacity, one device after the other; a byte arrives at the first or at *)
(* the last device of the full table, and a source is removed.             *)
(***************************************************************************)
\* bytes that may arrive at the devices in the whole run (SpecTable)
MaxTableBytes == 1
\* sources that may be removed in the whole run (SpecTable)
MaxTableRemoved == 1

\* the descriptors of the devices: one more than the table holds
DeviceFds ==
    3..(3 + MIDI_READER_IN_MAX)
\* the devices that send: the first, and the one that takes the last slot
SendingFds ==
    {3, 2 + MIDI_READER_IN_MAX}
\* the device registered next: the first that is not in the table
NextDevice ==
    CHOOSE fd \in DeviceFds \ TableFds :
        \A other \in DeviceFds \ TableFds : fd <= other
\* the arrivals of one call: a note on or a timing clock at one sending
\* device
TableArrivals ==
    {[fd \in DeviceFds |-> IF fd = d THEN <<b>> ELSE <<>>] :
        d \in SendingFds, b \in {144, 248}}

InitTable ==
    /\ midi_reader_init({}, <<>>)
    /\ tape = [fd \in DeviceFds |-> <<>>]
    /\ env = Env(MaxTableBytes, 0, 0)

NextTable ==
    \/ AddSource(NextDevice, 0)
    \/ \E fd \in SendingFds :
        Len(hist.closed) < MaxTableRemoved /\ RemoveSource(fd)
    \/ \E arr \in TableArrivals : ArrivesAtSources(arr) /\ Update(arr)

SpecTable ==
    InitTable /\ [][NextTable]_vars

\* a source as midi_reader_add_source (fd, channel) finds a slot that
\* midi_reader_init or a removal left blank
BlankSource(fd, channel) ==
    [midi_reader_reset_source(FALSE) EXCEPT
        !.fd = fd, !.channel = ChannelArg(channel)]

(***************************************************************************)
(* C14 (as claimed): a source newly registered by add-source, after any    *)
(* add-source, remove-source and update calls, starts blank: its frame in  *)
(* progress and its input buffer are empty, it has no running status and   *)
(* no pushed-back byte, and its four statistics are 0.                     *)
(***************************************************************************)
C14_NewSourceBlank ==
    [][\A fd \in DeviceFds :
        (AddSource(fd, 0) /\ nsources' = nsources + 1)
            => SrcAt(sources', nsources) = BlankSource(fd, 0)]_vars

(***************************************************************************)
(* The callback: one source, a dump sink, a skip-list of timing clock, and *)
(* every kind of callback, set at any time.                                *)
(***************************************************************************)
MaxCallbackBytes == 4
\* what the callback does: nothing is set, or it returns an outcome, or it
\* empties the frame, or it edits the frame
CallbackKinds ==
    {"none", "complete", "skipped", "error", "next", "empty", "edit"}
\* note on of channel 1, a data byte, timing clock
CallbackArrivals ==
    [Fds -> {<<b>> : b \in {144, 5, 248}}]

InitCallback ==
    /\ midi_reader_init({}, <<248>>)
    /\ tape = [fd \in Fds |-> <<>>]
    /\ env = Env(MaxCallbackBytes, 0, 0)

NextCallback ==
    \/ \E fd \in Fds : Fresh /\ AddSource(fd, 0)
    \/ \E fd \in DumpFds : Fresh /\ SetDumpFd(fd)
    \/ \E cb \in CallbackKinds : cb # callback /\ SetCallback(cb)
    \/ \E arr \in CallbackArrivals : ArrivesAtSources(arr) /\ Update(arr)

SpecCallback ==
    InitCallback /\ [][NextCallback]_vars

\* an update step in which the one source finalised a frame that is not in
\* the skip-list, with a callback set
CallbackRan ==
    /\ last'.op = "update" /\ Len(last'.ev) = 1
    /\ last'.ev[1].proc /\ last'.ev[1].fin.len > 0
    /\ ~IsSkipped(to_skip, last'.ev[1].fin)
    /\ callback # "none"

\* the step neither queued nor dumped the frame, and counted s more
\* skipped frames and e more errors, for the source and in total
Gated(s, e) ==
    /\ frames' = frames /\ dump' = dump
    /\ ~last'.ev[1].stored /\ ~last'.ev[1].dumped
    /\ total' = [total EXCEPT !.read = @ + 1, !.skipped = @ + s,
                                !.errors = @ + e]
    /\ SrcAt(sources', 0).stats =
            [SrcAt(sources, 0).stats EXCEPT !.read = @ + 1, !.skipped = @ + s,
                                            !.errors = @ + e]

\* the step queued the frame mf and, with a dump sink, dumped it
Passed(mf) ==
    /\ last'.ev[1].stored /\ hist'.stored = Append(hist.stored, mf)
    /\ dump' = DumpFrame(dump, mf)
    /\ total' = [total EXCEPT !.read = @ + 1]

(***************************************************************************)
(* C15: the callback is called once for each finalised frame that is not   *)
(* in the skip-list, before the frame is dumped and queued: the frame      *)
(* queued and dumped is the one the callback left.  When the callback      *)
(* returns skipped the frame is neither queued nor dumped and skipped is   *)
(* incremented; when it returns a value other than complete or skipped the *)
(* frame is neither queued nor dumped and errors is incremented; when it   *)
(* empties the frame the frame is neither queued nor dumped and neither    *)
(* errors nor skipped changes.  A frame of the skip-list is counted as     *)
(* skipped whatever the callback would return.                             *)
(***************************************************************************)
C15_CallbackGating ==
    [][/\ CallbackRan =>
            CASE callback = "skipped" -> Gated(1, 0)
              [] callback \in {"error", "next"} -> Gated(0, 1)
              [] callback = "empty" -> Gated(0, 0)
              [] callback = "edit" -> Passed(CallbackEdit(last'.ev[1].fin))
              [] OTHER -> Passed(last'.ev[1].fin)
       /\ (/\ last'.op = "update" /\ Len(last'.ev) = 1
           /\ last'.ev[1].proc /\ last'.ev[1].fin.len > 0
           /\ IsSkipped(to_skip, last'.ev[1].fin)) => Gated(1, 0)]_vars

\* a callback that returns an outcome other than complete and skipped has
\* just kept a frame out of the queue and the dump sink
C15_Witness ==
    /\ last.op = "update" /\ Len(last.ev) = 1
    /\ last.ev[1].proc /\ last.ev[1].fin.data = <<144, 5, 5>>
    /\ callback = "next" /\ dumpfd > -1
    /\ total.errors > 0 /\ hist.stored = <<>> /\ dump = <<>>

(***************************************************************************)
(* The dump sink with a queue that fills: one device holds more timing     *)
(* clocks than the queue has room for, and nothing is dequeued.            *)
(***************************************************************************)
MaxDumpExtra == 2

InitDump ==
    /\ midi_reader_init({}, <<>>)
    /\ \E x \in 1..MaxDumpExtra :
        /\ tape = [fd \in Fds |->
                        ShedStream(1, MIDI_READER_FRAMES_MAX + x)]
        /\ env = Env(0, 0, 1)

NextDump ==
    \/ \E fd \in Fds : Fresh /\ AddSource(fd, 0)
    \/ \E fd \in DumpFds : Fresh /\ SetDumpFd(fd)
    \/ ~Drained /\ Update(NoArr)

SpecDump ==
    InitDump /\ [][NextDump]_vars

\* the bytes of the frames fs, frame by frame
FrameBytes(fs) ==
    [k \in 1..Len(fs) |-> SubSeq(fs[k].data, 1, fs[k].len)]

\* the bytes of the writes ws to the dump sink, write by write
WrittenBytes(ws) ==
    [k \in 1..Len(ws) |-> ws[k].bytes]

(***************************************************************************)
(* C16 (as claimed): with a dump sink configured, what an update writes to *)
(* the sink is exactly the frames it stores in the queue, in order; a      *)
(* frame that is skipped, in error or dropped, also when it is dropped     *)
(* because the queue is full, is not written.                              *)
(***************************************************************************)
C16_DumpIsStored ==
    [][(dumpfd > -1 /\ last'.op = "update") =>
            WrittenBytes(SubSeq(dump', Len(dump) + 1, Len(dump'))) =
                FrameBytes(SubSeq(hist'.stored, Len(hist.stored) + 1,
                                  Len(hist'.stored)))]_vars

(***************************************************************************)
(* The statistics of two sources: bytes arrive at either device, frames    *)
(* are skipped by the skip-list or by the callback, refused by the         *)
(* callback, or in error.                                                  *)
(***************************************************************************)
MaxStatBytes == 3
StatFds == {3, 4}
\* note on of channel 1, a data byte, timing clock
StatArrivals ==
    [StatFds -> {<<>>} \cup {<<b>> : b \in {144, 5, 248}}]

InitStats ==
    /\ midi_reader_init({}, <<248>>)
    /\ tape = [fd \in StatFds |-> <<>>]
    /\ env = Env(MaxStatBytes, 0, 0)

NextStats ==
    \/ \E fd \in StatFds : AddSource(fd, 0)
    \/ \E cb \in {"skipped", "error"} : Fresh /\ SetCallback(cb)
    \/ \E arr \in StatArrivals : ArrivesAtSources(arr) /\ Update(arr)
    \/ \E arr \in StatArrivals : ArrivesAtSources(arr) /\ GetNext(arr)

SpecStats ==
    InitStats /\ [][NextStats]_vars

RECURSIVE SumStats(_, _)
\* counter c summed over the first n sources
SumStats(c, n) ==
    IF n = 0 THEN 0 ELSE SrcAt(sources, n - 1).stats[c] + SumStats(c, n - 1)

(***************************************************************************)
(* C17: with no reset of the statistics, no removal and no injection, the  *)
(* cumulative read, errors and skipped counters are each the sum of the    *)
(* counters of the sources, so every increment of a source's counter came  *)
(* with the same increment of the cumulative one; no source's missed       *)
(* counter is ever incremented.                                            *)
(***************************************************************************)
C17_StatsMirrored ==
    /\ \A c \in {"read", "errors", "skipped"} :
            total[c] = SumStats(c, nsources)
    /\ \A i \in 0..(nsources - 1) : SrcAt(sources, i).stats.missed = 0

\* both sources have counted frames, one of them an error and the other a
\* skipped frame
C17_Witness ==
    /\ nsources = 2
    /\ SrcAt(sources, 0).stats.errors > 0
    /\ SrcAt(sources, 1).stats.skipped > 0
    /\ SrcAt(sources, 1).stats.read > 0
    /\ total.read > SrcAt(sources, 1).stats.read

(***************************************************************************)
(* Every operation but reset-stats, in any order: two devices, sources     *)
(* added and removed, injections, the queue cleared, the reader closed.    *)
(***************************************************************************)
MaxMonoBytes == 2
MaxMonoInject == 1
MaxMonoClosed == 1
\* the frames injected: a note on, a real-time byte, and a 2-byte frame
\* that ends in error
MonoInjectFrames ==
    QueueInjectFrames \cup {[len |-> 2, data |-> <<192, 5>>]}

InitMono ==
    /\ midi_reader_init({}, <<248>>)
    /\ tape = [fd \in SourceFds |-> <<>>]
    /\ env = Env(MaxMonoBytes, MaxMonoInject, 0)

NextMono ==
    \/ \E fd \in SourceFds : AddSource(fd, 0)
    \/ \E fd \in SourceFds :
        Len(hist.closed) < MaxMonoClosed /\ RemoveSource(fd)
    \/ \E arr \in SourceArrivals : ArrivesAtSources(arr) /\ Update(arr)
    \/ \E arr \in SourceArrivals : ArrivesAtSources(arr) /\ GetNext(arr)
    \/ \E mf \in MonoInjectFrames : Inject(mf)
    \/ ClearQueue
    \/ Len(hist.closed) < MaxMonoClosed /\ Close

SpecMono ==
    InitMono /\ [][NextMono]_vars

\* the statistics of the registered source of descriptor fd
StatsOf(fd) ==
    SrcAt(sources, SlotOf(fd)).stats

\* the counters of a statistics record
Counters ==
    {"read", "errors", "skipped", "missed"}

(***************************************************************************)
(* C18: over add-source, remove-source, update, get-next, inject,          *)
(* clear-queue and close, no counter of the cumulative statistics          *)
(* decreases, and no counter of a source that is registered before and     *)
(* after the operation decreases.                                          *)
(***************************************************************************)
C18_CountersMonotonic ==
    [][/\ \A c \in Counters : total'[c] >= total[c]
       /\ \A fd \in SourceFds :
            (Registered(fd) /\ Registered(fd)') =>
                \A c \in Counters : StatsOf(fd)'[c] >= StatsOf(fd)[c]]_vars

\* the first source has just been removed, and the source that moved into
\* its slot has kept the frame it counted
C18_Witness ==
    /\ last.op = "remove_source" /\ last.ret = 1
    /\ nsources = 1 /\ Registered(4)
    /\ StatsOf(4).read > 0
    /\ total.read > StatsOf(4).read

\* the frame in slot n of the queue fr, read through the pointer
\* midi_reader_get_next returned
SlotFrame(fr, n) ==
    IF n + 1 <= Len(fr.frames) THEN fr.frames[n + 1] ELSE midi_frame_reset

(***************************************************************************)
(* C19 (as claimed): once get-next has returned a frame, the next update,  *)
(* get-next or inject leaves the length and bytes of that frame as they    *)
(* were returned.                                                          *)
(***************************************************************************)
C19_ReturnedFrameKept ==
    [][(/\ last.op = "get_next" /\ last.ret # -1
        /\ last'.op \in {"update", "get_next", "inject"}) =>
            SlotFrame(frames', last.ret) = last.frame]_vars

(***************************************************************************)
(* C20 (as claimed): inject returns the full length of the frame only when *)
(* the frame was accepted; when the frame is erroneous (counted in errors) *)
(* or cannot be stored because the queue is full (counted in missed) it    *)
(* returns a count smaller than the length of the frame.                   *)
(***************************************************************************)
C20_InjectReportsFailure ==
    [][(/\ last'.op = "inject"
        /\ \/ total'.errors > total.errors
           \/ total'.missed > total.missed) =>
            last'.ret < last'.frame.len]_vars

(***************************************************************************)
(* The queue filled to capacity and beyond; once the device is drained the *)
(* queue is dequeued, injected into and cleared in any order.  Start       *)
(* (0xFA) is in the skip-list.                                             *)
(***************************************************************************)
MaxFillExtra == 2
MaxFillInject == 2

InitFill ==
    /\ midi_reader_init({}, <<250>>)
    /\ \E x \in 1..MaxFillExtra :
        /\ tape = [fd \in Fds |->
                        ShedStream(1, MIDI_READER_FRAMES_MAX + x)]
        /\ env = Env(0, MaxFillInject, 1)

NextFill ==
    \/ \E fd \in Fds : Fresh /\ AddSource(fd, 0)
    \/ ~Drained /\ Update(NoArr)
    \/ Drained /\ GetNext(NoArr)
    \/ \E b \in {250, 254} : Drained /\ Inject([len |-> 1, data |-> <<b>>])
    \/ Drained /\ ClearQueue

SpecFill ==
    InitFill /\ [][NextFill]_vars

(***************************************************************************)
(* C21: after any sequence of update, get-next, inject and clear-queue the *)
(* frame queue satisfies 0 <= offset <= length <= capacity (1024).         *)
(***************************************************************************)
C21_QueueInvariant ==
    /\ 0 <= frames.offset
    /\ frames.offset <= frames.len
    /\ frames.len <= MIDI_READER_FRAMES_MAX

\* the queue is at capacity, a frame has been dropped for want of room, and
\* get-next has begun to dequeue
C21_Witness ==
    /\ frames.len = MIDI_READER_FRAMES_MAX
    /\ total.missed > 0
    /\ frames.offset = 1
    /\ last.op = "get_next"

(***************************************************************************)
(* C22 (as claimed): when a source has delivered a status byte in          *)
(* 0xC0-0xDF and exactly one data byte, and then delivers a different      *)
(* status byte, the frame of length 2 made of that status and data byte is *)
(* enqueued and the errors counter of the source is not incremented.       *)
(***************************************************************************)
C22_TwoByteDelivered ==
    \A e \in Events :
        (/\ e.pre.len = 2
         /\ e.pre.data[1] \in 192..223 /\ e.pre.data[2] \in 0..127
         /\ e.b \in 128..255 /\ e.b # e.pre.data[1]) =>
            /\ e.st # MIDIF_ERROR
            /\ e.stored
            /\ e.out = e.pre

(***************************************************************************)
(* C23 (as claimed): at the end of every update, each source whose errors  *)
(* counter was incremented during the call has an empty in-progress frame  *)
(* and no running status.                                                  *)
(***************************************************************************)
C23_ErrorRecovery ==
    [][last'.op = "update" =>
        \A i \in 0..(nsources - 1) :
            SrcAt(sources', i).stats.errors > SrcAt(sources, i).stats.errors
                => /\ SrcAt(sources', i).current = midi_frame_reset
                   /\ SrcAt(sources', i).running = 0]_vars

\* running status is tracked for a frame in progress that begins with the
\* tracked status
TracksFrame(running, mf) ==
    running # 0 => (mf.len >= 1 /\ D0(mf) = running)

(***************************************************************************)
(* C24: a source with running-status tracking active has an in-progress    *)
(* frame of length at least 1 whose first byte is the tracked status, in   *)
(* every state and at every byte pushed; so the running-status boundary    *)
(* branch is never entered with an in-progress frame of length 0.          *)
(***************************************************************************)
C24_RunningHasFrame ==
    /\ \A i \in 0..(nsources - 1) :
            TracksFrame(SrcAt(sources, i).running, SrcAt(sources, i).current)
    /\ \A e \in Events :
            /\ TracksFrame(e.run, e.pre)
            /\ RunningBoundary(e.run, e.b) => e.pre.len > 0

\* the boundary branch has just been entered: a status byte arrived while
\* running status was tracked for a frame of a status byte and one pair
C24_Witness ==
    /\ last.op = "update" /\ Len(last.ev) = 1
    /\ RunningBoundary(last.ev[1].run, last.ev[1].b)
    /\ last.ev[1].pre = [len |-> 3, data |-> <<144, 5, 5>>]
    /\ callback = "empty"

(***************************************************************************)
(* Expansion of long frames: a channel-voice status byte followed by data  *)
(* bytes that count up, of every length from 2 to the maximum frame size.  *)
(***************************************************************************)
ExpandLongInputs ==
    {[len |-> n, data |-> [k \in 1..n |-> IF k = 1 THEN st ELSE k % 128]] :
        st \in {128, 239}, n \in 2..MIDI_FRAME_MAX}

InitExpandLong ==
    /\ midi_reader_init({}, <<>>)
    /\ tape = <<>>
    /\ \E mf \in ExpandLongInputs : env = Env(0, 0, 0) @@ [mf |-> mf]

SpecExpandLong ==
    InitExpandLong /\ [][NextExpand]_vars

\* the number of data pairs of a frame of length 1 + 2N
Pairs(mf) ==
    (mf.len - 1) \div 2

\* mf is f rewritten as one 3-byte message per data pair, in order
Triples(mf, f) ==
    /\ mf.len = 3 * Pairs(f)
    /\ \A k \in 1..Pairs(f) :
        /\ mf.data[3 * k - 2] = f.data[1]
        /\ mf.data[3 * k - 1] = f.data[2 * k]
        /\ mf.data[3 * k] = f.data[2 * k + 1]

(***************************************************************************)
(* C25: for a frame with a channel-voice status and length 1 + 2N, N >= 2, *)
(* expansion succeeds when length + (length - 1) / 2 does not exceed the   *)
(* maximum frame size, and rewrites the frame to length 3N whose k-th      *)
(* triple is the status and the k-th data pair; it returns false and       *)
(* leaves the frame unchanged when length - 1 is odd or when               *)
(* length + (length - 1) / 2 exceeds the maximum frame size.               *)
(***************************************************************************)
C25_ExpandResult ==
    (/\ last.op = "expand"
     /\ D0(last.frame) \in 128..239
     /\ last.frame.len # 3 /\ last.frame.len >= 2) =>
        IF /\ last.frame.len % 2 = 1
           /\ last.frame.len + Pairs(last.frame) <= MIDI_FRAME_MAX
        THEN last.ret = 1 /\ Triples(Held, last.frame)
        ELSE last.ret = 0 /\ Held = last.frame

\* the longest frame that can be expanded has been expanded
C25_Witness ==
    /\ last.op = "expand" /\ last.ret = 1
    /\ last.frame.len = 85
    /\ Held.len = 126
    /\ SubSeq(Held.data, 124, 126) = <<128, 84, 85>>

(***************************************************************************)
(* C26 (as claimed): with no callback registered, whatever the flags of    *)
(* the reader, every frame stored in the queue has a length between 1 and  *)
(* the maximum frame size and a first byte with its high bit set.          *)
(***************************************************************************)
C26_StoredFramesValid ==
    callback = "none" =>
        \A k \in 1..Len(hist.stored) :
            /\ hist.stored[k].len \in 1..MIDI_FRAME_MAX
            /\ D0(hist.stored[k]) >= 128

(***************************************************************************)
(* C27: with no callback and no reset of the statistics, after any         *)
(* sequence of update, get-next and inject, cumulative read is cumulative  *)
(* skipped plus cumulative missed plus the number of frames ever stored in *)
(* the queue, and no finalised frame is both skipped and stored.           *)
(***************************************************************************)
C27_FrameAccounting ==
    callback = "none" =>
        /\ total.read = total.skipped + total.missed + Len(hist.stored)
        /\ \A e \in Events :
                e.proc => ~(e.st = MIDIF_SKIPPED /\ e.stored)

\* frames have been skipped, dropped for want of room, and stored, more of
\* them than the queue holds at a time
C27_Witness ==
    /\ total.skipped > 0
    /\ total.missed > 0
    /\ Len(hist.stored) > MIDI_READER_FRAMES_MAX
    /\ last.op = "inject"

====
